---- MODULE Spec2Model ----
(***************************************************************************)
(* A model of the wind-turbine analysis scripts src/wind_analysis.py and   *)
(* src/power_power_factor.py: the sample table, the aggregations over it,  *)
(* the status-code scan and the run of main().                             *)
(*                                                                         *)
(* Numbers: powers are integers (kW), wind speeds are integers in          *)
(* hundredths of a m/s, times of day are integers in seconds, and every    *)
(* quotient is an exact rational <<n, d>> with d > 0. IEEE rounding and    *)
(* overflow of float64 are not modelled.                                   *)
(***************************************************************************)
EXTENDS Integers, Sequences, FiniteSets, TLC

VARIABLES
    df,             \* the caller's table: a sequence of rows (column name -> value)
    columns,        \* the column names of the caller's table
    params,         \* the turbine parameters of the sidebar
    today,          \* the calendar day of the system clock
    pc,             \* the control location of the running function
    i,              \* find_error_time_ranges: the loop index (1-based here)
    current_code,   \* find_error_time_ranges: the code of the run being scanned
    start_time,     \* find_error_time_ranges: the first timestamp of that run
    error_ranges,   \* find_error_time_ranges: code -> list of (start, end)
    result,         \* the value the last function call returned
    prev,           \* the value the call before that returned
    out             \* what main() has shown to the user, in order

vars == <<df, columns, params, today, pc, i, current_code, start_time, error_ranges,
          result, prev, out>>

----------------------------------------------------------------------------
(* Bounds of the model *)

MaxScanRows == 3
MaxWindRows == 2
MaxEffRows == 2
MaxCpRows == 1
MaxCodeRows == 3
MaxTimeRows == 2
MaxMainRows == 1
MaxDay == 1

----------------------------------------------------------------------------
(* Python values *)

None == -1
NoResult == [fn |-> "none"]
NoParams == [air_density |-> 0, rotor_diameter |-> 0, rotor_height |-> 0]
EmptyDict == [c \in {} |-> <<>>]

\* seq[k] with Python's 0-based index, a negative k counting from the end
PyIndex(seq, k) == IF k >= 0 THEN seq[k + 1] ELSE seq[Len(seq) + k + 1]

\* d[k].append(v) on a defaultdict(list)
DictAppend(d, k, v) ==
    [c \in (DOMAIN d) \cup {k} |->
        IF c = k THEN Append(IF k \in DOMAIN d THEN d[k] ELSE <<>>, v) ELSE d[c]]

Column(table, name) == [k \in 1..Len(table) |-> table[k][name]]

\* all sequences over S of length at most n
SeqsUpTo(S, n) == UNION {[1..m -> S] : m \in 0..n}

\* df[name] = value on one row
SetCol(row, name, value) == (name :> value) @@ row

RECURSIVE SortSet(_)
\* the elements of a set of integers in ascending order
SortSet(S) ==
    IF S = {} THEN <<>>
    ELSE LET m == CHOOSE x \in S : \A y \in S : x <= y
         IN  <<m>> \o SortSet(S \ {m})

----------------------------------------------------------------------------
(* Exact arithmetic: a rational is <<n, d>> with d > 0, in lowest terms *)

Abs(n) == IF n < 0 THEN -n ELSE n

RECURSIVE GCD(_, _)
GCD(a, b) == IF b = 0 THEN a ELSE GCD(b, a % b)

Norm(x) ==
    LET g == GCD(Abs(x[1]), x[2])
    IN  IF g = 0 THEN x ELSE <<x[1] \div g, x[2] \div g>>

R(n) == <<n, 1>>
RDivInt(n, d) == IF d > 0 THEN Norm(<<n, d>>) ELSE Norm(<<-n, -d>>)
RAdd(x, y) == Norm(<<x[1] * y[2] + y[1] * x[2], x[2] * y[2]>>)
RMul(x, y) == Norm(<<x[1] * y[1], x[2] * y[2]>>)
\* x / y for y > 0
RDiv(x, y) == Norm(<<x[1] * y[2], x[2] * y[1]>>)
\* x < y, comparing the integer parts first to keep the products small
RLt(x, y) ==
    LET fx == x[1] \div x[2]
        fy == y[1] \div y[2]
    IN  IF fx # fy THEN fx < fy
        ELSE (x[1] - fx * x[2]) * y[2] < (y[1] - fy * y[2]) * x[2]
RLe(x, y) == ~RLt(y, x)

RECURSIVE RSum(_)
RSum(seq) == IF seq = <<>> THEN R(0) ELSE RAdd(Head(seq), RSum(Tail(seq)))

\* Series.mean() of a non-empty column of rationals
RMean(seq) == LET s == RSum(seq) IN Norm(<<s[1], s[2] * Len(seq)>>)

\* Series.mean() of a non-empty column of integers
IntMean(seq) == RMean([k \in 1..Len(seq) |-> R(seq[k])])

\* numpy's round and pandas' round: n / unit to the nearest integer, a tie
\* to the even one
RoundHalfEven(n, unit) ==
    LET q == n \div unit
        r == n % unit
    IN  IF 2 * r < unit THEN q
        ELSE IF 2 * r > unit THEN q + 1
        ELSE IF q % 2 = 0 THEN q ELSE q + 1

----------------------------------------------------------------------------
(* read_and_process_data: the derived columns *)

\* df['Efficiency'] = (df['Power_DC'] / df['Power_AC']) * 100; the float
\* quotient by zero is inf, -inf or nan
EfficiencyOf(dc, ac) ==
    IF ac # 0 THEN [kind |-> "num", val |-> RDivInt(dc * 100, ac)]
    ELSE IF dc > 0 THEN [kind |-> "inf"]
    ELSE IF dc < 0 THEN [kind |-> "-inf"]
    ELSE [kind |-> "nan"]

BETZ == <<593, 1000>>

\* a row of the enriched table; wsd in hundredths of a m/s, dc and ac in kW,
\* cp a rational, tm in seconds of the day
Row(wsd, dc, ac, cp, tm, code) ==
    [WSD |-> wsd, Power_DC |-> dc, Power_AC |-> ac, Efficiency |-> EfficiencyOf(dc, ac),
     Cp |-> cp, TM |-> tm] @@ ("CODE 1" :> code)

\* the columns of the table read_and_process_data returns
EnrichedColumns ==
    {"Vdc", "Idc", "Euv", "Evw", "Ewu", "Iu", "Iv", "Iw", "WSD", "TM", "CODE 1",
     "Power_DC", "Power_AC", "Efficiency", "Cp"}

\* the same row before line 44 has set its Cp
RowNoCp(wsd, dc, ac, tm, code) ==
    [WSD |-> wsd, Power_DC |-> dc, Power_AC |-> ac, Efficiency |-> EfficiencyOf(dc, ac),
     TM |-> tm] @@ ("CODE 1" :> code)

----------------------------------------------------------------------------
(* find_error_time_ranges, src/wind_analysis.py:212-235, one loop iteration *)
(* per step                                                                *)

NOMINAL == 16

ScanCodes == {16, 5, 3}
ScanTimes == {29, 30, 90}

times == Column(df, "TM")
codes == Column(df, "CODE 1")

\* line 225 without its test for code 16
SavesRange_NoNominalCheck(cur) == cur # None

\* line 225: the previous run is saved when it is a run of a non-16 code
SavesRange(cur) == cur # None /\ cur # NOMINAL

\* line 226 closing the interval at the current sample
ClosingTime_AtCurrent(ts, idx) == PyIndex(ts, idx)

\* line 226: the saved interval ends at the previous sample
ClosingTime(ts, idx) == PyIndex(ts, idx - 1)

\* line 233: the run open at the end of input ends at the last sample
FinalTime(ts) == PyIndex(ts, -1)

\* line 227-228: a new run starts at this sample unless its code is 16
StartsRange(code) == code # NOMINAL

InitScan ==
    /\ df \in SeqsUpTo({Row(300, 1, 1, BETZ, t, c) : t \in ScanTimes, c \in ScanCodes},
                       MaxScanRows)
    /\ columns = EnrichedColumns
    /\ params = NoParams
    /\ today = 0
    /\ pc = "scan"
    /\ i = 1
    /\ current_code = None
    /\ start_time = None
    /\ error_ranges = EmptyDict
    /\ result = NoResult
    /\ prev = NoResult
    /\ out = <<>>

\* lines 223-229: the body of the for loop at 0-based index idx
ScanBody(cur, start, ranges, idx, ts, cs) ==
    LET code == PyIndex(cs, idx)
    IN  IF code # cur
        THEN [current_code |-> code,
              start_time |-> IF StartsRange(code) THEN PyIndex(ts, idx) ELSE start,
              error_ranges |-> IF SavesRange(cur)
                               THEN DictAppend(ranges, cur,
                                               <<start, ClosingTime(ts, idx)>>)
                               ELSE ranges]
        ELSE [current_code |-> cur, start_time |-> start, error_ranges |-> ranges]

\* lines 231-235: the last range, and the returned mapping
ScanTail(cur, start, ranges, ts) ==
    IF SavesRange(cur) THEN DictAppend(ranges, cur, <<start, FinalTime(ts)>>)
    ELSE ranges

\* lines 222-229: one iteration of the for loop
ScanStep ==
    /\ pc = "scan"
    /\ i <= Len(df)
    /\ LET st == ScanBody(current_code, start_time, error_ranges, i - 1, times, codes)
       IN  /\ current_code' = st.current_code
           /\ start_time' = st.start_time
           /\ error_ranges' = st.error_ranges
    /\ i' = i + 1
    /\ UNCHANGED <<df, columns, params, today, pc, result, prev, out>>

\* lines 231-235: the last range, and the return
ScanReturn ==
    /\ pc = "scan"
    /\ i > Len(df)
    /\ error_ranges' = ScanTail(current_code, start_time, error_ranges, times)
    /\ pc' = "done"
    /\ result' = [fn |-> "find_error_time_ranges", value |-> error_ranges']
    /\ prev' = result
    /\ UNCHANGED <<df, columns, params, today, i, current_code, start_time, out>>

NextScan == ScanStep \/ ScanReturn

SpecScan == InitScan /\ [][NextScan]_vars

\* a maximal contiguous run a..b of samples sharing one code other than 16
IsRun(a, b) ==
    /\ a <= b
    /\ codes[a] # NOMINAL
    /\ \A k \in a..b : codes[k] = codes[a]
    /\ (a = 1 \/ codes[a - 1] # codes[a])
    /\ (b = Len(df) \/ codes[b + 1] # codes[a])

Runs == {r \in (1..Len(df)) \X (1..Len(df)) : IsRun(r[1], r[2])}
RunsOf(c) == {r \in Runs : codes[r[1]] = c}

\* C1: when find_error_time_ranges returns, the mapping holds exactly one
\* interval per maximal contiguous run of a code other than 16 and no other:
\* it is filed under the run's code, in input order, from the timestamp of
\* the run's first sample to the timestamp of its last sample.
C1_OneIntervalPerRun ==
    pc = "done" =>
        /\ DOMAIN error_ranges = {codes[r[1]] : r \in Runs}
        /\ \A c \in DOMAIN error_ranges :
              /\ Len(error_ranges[c]) = Cardinality(RunsOf(c))
              /\ \A k \in 1..Len(error_ranges[c]) :
                    \E r \in RunsOf(c) :
                        /\ Cardinality({q \in RunsOf(c) : q[1] <= r[1]}) = k
                        /\ error_ranges[c][k] = <<times[r[1]], times[r[2]]>>
        /\ result.value = error_ranges

\* a run of two samples closed by a code change, then a single-sample run
\* still open at the end of input
C1_Witness ==
    /\ pc = "done"
    /\ codes = <<5, 5, 3>>
    /\ times = <<29, 30, 90>>
    /\ error_ranges = (5 :> <<(<<29, 30>>)>>) @@ (3 :> <<(<<90, 90>>)>>)

\* C2: code 16 is never a key of the interval mapping, in any state of the
\* scan and in the returned mapping; a table of code 16 only (or an empty
\* table) returns the empty mapping.
C2_NominalNeverKey ==
    /\ NOMINAL \notin DOMAIN error_ranges
    /\ (pc = "done" /\ \A k \in 1..Len(df) : codes[k] = NOMINAL)
          => (error_ranges = EmptyDict /\ result.value = EmptyDict)

\* the scan of a table of three samples of code 16 has returned
C2_Witness ==
    /\ pc = "done"
    /\ codes = <<16, 16, 16>>
    /\ result.value = EmptyDict

----------------------------------------------------------------------------
(* The wind-speed aggregations of both files *)

CUT_IN == 300

WindSpeeds == {295, 300, 305, 400}
WindDC == {0, 1, 2}
WindAC == {0, 2, 3}

\* the sorted distinct values of a column: the groups of groupby(name)
GroupKeys(table, name) == SortSet({table[k][name] : k \in 1..Len(table)})

\* the rows of one group
RowsWith(table, name, key) == SelectSeq(table, LAMBDA r : r[name] = key)

\* wind_analysis.py:55, round(df['WSD'] * 10) / 10
WA_WSD_rounded(wsd) == RoundHalfEven(wsd, 10) * 10

\* wind_analysis.py:55, the column is set on the caller's table
WA_WithRounded(table) ==
    [k \in 1..Len(table) |->
        SetCol(table[k], "WSD_rounded", WA_WSD_rounded(table[k].WSD))]

\* wind_analysis.py:56-61
WA_Groups(table) ==
    LET keys == GroupKeys(table, "WSD_rounded")
    IN  [j \in 1..Len(keys) |->
            LET g == RowsWith(table, "WSD_rounded", keys[j])
            IN  [WSD_rounded |-> keys[j],
                 Power_DC |-> IntMean(Column(g, "Power_DC")),
                 Power_AC |-> IntMean(Column(g, "Power_AC")),
                 Cp |-> RMean(Column(g, "Cp"))]]

\* power_power_factor.py:18, df = df[df['WSD'] >= 3]
PF_AboveCutIn(table) == SelectSeq(table, LAMBDA r : r.WSD >= CUT_IN)

\* power_power_factor.py:20, df['WSD'].round(1)
PF_WSD_rounded(wsd) == RoundHalfEven(wsd, 10) * 10

\* power_power_factor.py:20, the column is set on the filtered table
PF_WithRounded(table) ==
    [k \in 1..Len(table) |->
        SetCol(table[k], "WSD_rounded", PF_WSD_rounded(table[k].WSD))]

\* power_power_factor.py:21-25
PF_Groups(table) ==
    LET keys == GroupKeys(table, "WSD_rounded")
    IN  [j \in 1..Len(keys) |->
            LET g == RowsWith(table, "WSD_rounded", keys[j])
            IN  [WSD_rounded |-> keys[j],
                 Power_DC |-> IntMean(Column(g, "Power_DC")),
                 Power_AC |-> IntMean(Column(g, "Power_AC"))]]

\* line 106 without its test of Power_DC
PF_Producing_AnyDC(r) == r.WSD >= CUT_IN /\ r.Power_AC > 0

\* power_power_factor.py:106
PF_Producing(r) == r.WSD >= CUT_IN /\ r.Power_DC > 0 /\ r.Power_AC > 0

\* power_power_factor.py:107, np.floor(df['WSD'])
PF_WSD_interval(wsd) == (wsd \div 100) * 100

\* power_power_factor.py:108, df['Power_DC'] / df['Power_AC'] on a row that
\* passed line 106
PF_PWo_PWi(r) == RDivInt(r.Power_DC, r.Power_AC)

\* line 109 keeping a ratio of exactly 1
PF_BelowOne_Inclusive(ratio) == RLe(ratio, R(1))

\* power_power_factor.py:109
PF_BelowOne(ratio) == RLt(ratio, R(1))

\* power_power_factor.py:106-109, the local table before the groupby
PF_FactorRows(table) ==
    LET kept == SelectSeq(table, PF_Producing)
        cols == [k \in 1..Len(kept) |->
                    SetCol(SetCol(kept[k], "WSD_interval", PF_WSD_interval(kept[k].WSD)),
                           "PWo_PWi", PF_PWo_PWi(kept[k]))]
    IN  SelectSeq(cols, LAMBDA r : PF_BelowOne(r.PWo_PWi))

\* power_power_factor.py:111-114
PF_FactorGroups(table) ==
    LET keys == GroupKeys(table, "WSD_interval")
    IN  [j \in 1..Len(keys) |->
            [WSD_interval |-> keys[j],
             PWo_PWi |-> RMean(Column(RowsWith(table, "WSD_interval", keys[j]),
                                      "PWo_PWi"))]]

InitWind ==
    /\ df \in SeqsUpTo({Row(w, dc, ac, BETZ, 0, NOMINAL) :
                            w \in WindSpeeds, dc \in WindDC, ac \in WindAC},
                       MaxWindRows)
    /\ columns = EnrichedColumns
    /\ params = NoParams
    /\ today = 0
    /\ pc = "ready"
    /\ i = 1
    /\ current_code = None
    /\ start_time = None
    /\ error_ranges = EmptyDict
    /\ result = NoResult
    /\ prev = NoResult
    /\ out = <<>>

\* wind_analysis.py:53-61
WA_process_wind_speed_data ==
    /\ pc = "ready"
    /\ df' = WA_WithRounded(df)
    /\ columns' = columns \cup {"WSD_rounded"}
    /\ result' = [fn |-> "WA_process_wind_speed_data", value |-> WA_Groups(df')]
    /\ prev' = result
    /\ pc' = "done"
    /\ UNCHANGED <<params, today, i, current_code, start_time, error_ranges, out>>

\* power_power_factor.py:17-25
PF_process_wind_speed_data ==
    /\ pc = "ready"
    /\ result' = [fn |-> "PF_process_wind_speed_data",
                  value |-> PF_Groups(PF_WithRounded(PF_AboveCutIn(df)))]
    /\ prev' = result
    /\ pc' = "done"
    /\ UNCHANGED <<df, columns, params, today, i, current_code, start_time, error_ranges, out>>

\* power_power_factor.py:105-114
PF_calculate_power_factors ==
    /\ pc = "ready"
    /\ result' = [fn |-> "PF_calculate_power_factors",
                  value |-> PF_FactorGroups(PF_FactorRows(df))]
    /\ prev' = result
    /\ pc' = "done"
    /\ UNCHANGED <<df, columns, params, today, i, current_code, start_time, error_ranges, out>>

NextWind ==
    \/ WA_process_wind_speed_data
    \/ PF_process_wind_speed_data
    \/ PF_calculate_power_factors

SpecWind == InitWind /\ [][NextWind]_vars

\* wind speed to one decimal, in hundredths of a m/s
Round1(wsd) == RoundHalfEven(wsd, 10) * 10

\* the samples at or above the cut-in speed whose speed rounds to key
AboveCutInAt(key) == SelectSeq(df, LAMBDA r : r.WSD >= CUT_IN /\ Round1(r.WSD) = key)

\* C3: process_wind_speed_data, in either file, emits no bucket holding a
\* sample with wind_speed < 3: every emitted key is round(wind_speed, 1) of a
\* sample with wind_speed >= 3, and the bucket's means are the means over
\* the samples with wind_speed >= 3 alone.
C3_NoBucketBelowCutIn ==
    result.fn \in {"WA_process_wind_speed_data", "PF_process_wind_speed_data"} =>
        \A j \in 1..Len(result.value) :
            LET g == AboveCutInAt(result.value[j].WSD_rounded)
            IN  /\ g # <<>>
                /\ result.value[j].Power_DC = IntMean(Column(g, "Power_DC"))
                /\ result.value[j].Power_AC = IntMean(Column(g, "Power_AC"))

\* the samples that pass every filter of the power-factor aggregation
FactorSamples(key) ==
    SelectSeq(df, LAMBDA r : /\ r.WSD >= CUT_IN
                             /\ r.Power_DC > 0
                             /\ r.Power_AC > 0
                             /\ r.Power_DC < r.Power_AC
                             /\ key * 100 <= r.WSD
                             /\ r.WSD < (key + 1) * 100)

\* the sum of Power_DC / Power_AC over a sequence of rows, as n / d
RECURSIVE RatioSum(_)
RatioSum(rows) ==
    IF rows = <<>> THEN <<0, 1>>
    ELSE LET s == RatioSum(Tail(rows))
             r == Head(rows)
         IN  <<r.Power_DC * s[2] + s[1] * r.Power_AC, r.Power_AC * s[2]>>

\* C7: calculate_power_factors averages exactly the samples with
\* wind_speed >= 3, power_dc > 0, power_ac > 0 and power_dc / power_ac < 1,
\* bucketed by floor(wind_speed), in ascending order; every emitted mean is
\* strictly between 0 and 1, and a table none of whose samples passes the
\* filters gives the empty result.
C7_PowerFactorsBelowOne ==
    result.fn = "PF_calculate_power_factors" =>
        /\ {result.value[j].WSD_interval : j \in 1..Len(result.value)}
              = {k * 100 : k \in {k \in 0..10 : FactorSamples(k) # <<>>}}
        /\ \A j \in 1..Len(result.value) :
              LET g == FactorSamples(result.value[j].WSD_interval \div 100)
                  s == RatioSum(g)
                  m == result.value[j].PWo_PWi
              IN  /\ m[1] * s[2] * Len(g) = s[1] * m[2]
                  /\ 0 < m[1]
                  /\ m[1] < m[2]
        /\ \A j \in 1..Len(result.value) - 1 :
              result.value[j].WSD_interval < result.value[j + 1].WSD_interval

\* two samples of the bucket 3 pass the filters (ratios 1/2 and 2/3), a
\* third of ratio 1 and one below the cut-in speed would be dropped
C7_Witness ==
    /\ result.fn = "PF_calculate_power_factors"
    /\ Len(df) = 2
    /\ df[1].Power_DC = 1 /\ df[1].Power_AC = 2 /\ df[1].WSD = 300
    /\ df[2].Power_DC = 2 /\ df[2].Power_AC = 3 /\ df[2].WSD = 305
    /\ result.value = <<[WSD_interval |-> 300, PWo_PWi |-> <<7, 12>>]>>

\* no sample passes the filters and the result is empty
C7_WitnessEmpty ==
    /\ result.fn = "PF_calculate_power_factors"
    /\ Len(df) = 2
    /\ df[1].Power_DC = 2 /\ df[1].Power_AC = 2 /\ df[1].WSD = 300
    /\ df[2].Power_DC = 1 /\ df[2].Power_AC = 2 /\ df[2].WSD = 295
    /\ result.value = <<>>

\* the values of the columns the caller's table had before the step
KeptValues ==
    /\ Len(df') = Len(df)
    /\ \A k \in 1..Len(df) : \A c \in DOMAIN df[k] :
          c \in DOMAIN df'[k] /\ df'[k][c] = df[k][c]

\* C11: an aggregation or analysis step (process_wind_speed_data,
\* process_time_data, calculate_power_factors, find_error_time_ranges,
\* error_analysis) leaves the caller's table with the same columns and the
\* same values as before the call.
C11_CallerTableUnchanged == [][columns' = columns /\ df' = df]_vars

\* what does hold of every call of process_wind_speed_data and of
\* calculate_power_factors: the table keeps its rows and the values of the
\* columns it had, and the only column a call adds is WSD_rounded
C11_OnlyAddsColumn ==
    [][/\ KeptValues
       /\ columns \subseteq columns'
       /\ columns' \ columns \subseteq {"WSD_rounded"}]_vars

\* the two functions of power_power_factor.py leave the table as it was
C11_FilteredCopiesKeepTable ==
    [][result'.fn \in {"PF_process_wind_speed_data", "PF_calculate_power_factors"}
          => columns' = columns /\ df' = df]_vars

----------------------------------------------------------------------------
(* calculate_power_coefficient, src/wind_analysis.py:9-25, applied to the  *)
(* table by read_and_process_data (line 44)                                *)

MIN_WIND == <<1, 10>>

CpPowers == {-1, 0, 1, 2}
CpWindSpeeds == {0, 5, 10, 300, 1000}
CpDensities == {R(0), R(1), <<49, 40>>}
CpLengths == {0, 1, 10}

\* line 15 without the clamp
CP_ClampWind_Off(wind_speed) == wind_speed

\* line 15: np.where(wind_speed < 0.1, 0.1, wind_speed)
CP_ClampWind(wind_speed) == IF RLt(wind_speed, MIN_WIND) THEN MIN_WIND ELSE wind_speed

\* line 22 without the upper limit
CP_Clip_LowOnly(cp, lo, hi) == IF RLt(cp, lo) THEN lo ELSE cp

\* line 22: np.clip(cp, 0, 0.593)
CP_Clip(cp, lo, hi) == IF RLt(cp, lo) THEN lo ELSE IF RLt(hi, cp) THEN hi ELSE cp

\* lines 9-25; every argument is a rational
calculate_power_coefficient(power_ac, wind_speed, air_density, rotor_diameter, rotor_height) ==
    LET area == RMul(rotor_height, rotor_diameter)
        ws == CP_ClampWind(wind_speed)
        denominator == RMul(RMul(RMul(<<1, 2>>, air_density), area),
                            RMul(ws, RMul(ws, ws)))
        cp == IF RLt(R(0), denominator)
              THEN RDiv(RMul(power_ac, R(1000)), denominator)
              ELSE R(0)
    IN  CP_Clip(cp, R(0), BETZ)

InitCp ==
    /\ df \in UNION {[1..m -> {RowNoCp(w, 1, ac, 0, NOMINAL) :
                                  w \in CpWindSpeeds, ac \in CpPowers}] :
                     m \in 1..MaxCpRows}
    /\ columns = EnrichedColumns \ {"Cp"}
    /\ params \in [air_density : CpDensities, rotor_diameter : CpLengths,
                   rotor_height : CpLengths]
    /\ today = 0
    /\ pc = "ready"
    /\ i = 1
    /\ current_code = None
    /\ start_time = None
    /\ error_ranges = EmptyDict
    /\ result = NoResult
    /\ prev = NoResult
    /\ out = <<>>

\* wind_analysis.py:44
RP_SetCp ==
    /\ pc = "ready"
    /\ df' = [k \in 1..Len(df) |->
                SetCol(df[k], "Cp",
                       calculate_power_coefficient(R(df[k].Power_AC),
                                                   RDivInt(df[k].WSD, 100),
                                                   params.air_density,
                                                   R(params.rotor_diameter),
                                                   R(params.rotor_height)))]
    /\ columns' = columns \cup {"Cp"}
    /\ result' = [fn |-> "calculate_power_coefficient", value |-> Column(df', "Cp")]
    /\ prev' = result
    /\ pc' = "done"
    /\ UNCHANGED <<params, today, i, current_code, start_time, error_ranges, out>>

NextCp == RP_SetCp

SpecCp == InitCp /\ [][NextCp]_vars

\* the wind speed of a row in tenths of a m/s, at least 0.1 m/s
TenthsClamped(row) == IF row.WSD < 10 THEN 1 ELSE row.WSD \div 10

\* C8: every Cp that calculate_power_coefficient returns is in [0, 0.593],
\* wind speed 0 included; with air density or rotor area 0 it is 0; and a
\* wind speed below 0.1 gives the Cp of wind speed 0.1; and a value strictly
\* inside the interval is power_ac * 1000 /
\* (0.5 * air_density * height * diameter * v^3) for v = max(wind_speed, 0.1).
C8_CpWithinBetz ==
    result.fn = "calculate_power_coefficient" =>
        \A k \in 1..Len(df) :
            LET cp == df[k].Cp
                v == TenthsClamped(df[k])
                rho == params.air_density
                area == params.rotor_diameter * params.rotor_height
            IN  /\ cp[2] > 0
                /\ cp[1] >= 0
                /\ RLe(cp, BETZ)
                /\ (rho[1] = 0 \/ area = 0) => cp = R(0)
                /\ df[k].WSD < 10 =>
                      LET den01 == Norm(<<rho[1] * area, 2000 * rho[2]>>)
                      IN  cp = IF den01[1] > 0
                               THEN CP_Clip(RDiv(R(df[k].Power_AC * 1000), den01),
                                            R(0), BETZ)
                               ELSE R(0)
                /\ (cp # R(0) /\ cp # BETZ) =>
                      RMul(cp, RMul(Norm(<<rho[1] * area, 2 * rho[2]>>),
                                    Norm(<<v * v * v, 1000>>)))
                          = R(df[k].Power_AC * 1000)

\* at wind speed 0 the power is divided by the denominator of 0.1 m/s and the
\* quotient is cut to the Betz limit
C8_Witness ==
    /\ result.fn = "calculate_power_coefficient"
    /\ df[1].WSD = 0
    /\ df[1].Power_AC = 1
    /\ params.air_density = <<49, 40>>
    /\ params.rotor_diameter = 10
    /\ df[1].Cp = BETZ

\* a Cp strictly inside the interval
C8_WitnessInside ==
    /\ result.fn = "calculate_power_coefficient"
    /\ df[1].Cp # R(0)
    /\ df[1].Cp # BETZ

----------------------------------------------------------------------------
(* error_analysis of both files *)

NaN == "NaN"
UNKNOWN == "Unknown"
NO_CODE_DATA == "No error code data available"

\* the error_codes dictionary, the same in both files
error_codes ==
    (1 :> "Generator overcurrent") @@
    (2 :> "Three-phase voltage imbalance") @@
    (3 :> "DC voltage output to the inverter is too high") @@
    (4 :> "DC current output to the inverter is too high") @@
    (5 :> "Overcurrent during motor operation") @@
    (6 :> "Motor circuit anomaly") @@
    (7 :> "Disk brake anomaly") @@
    (8 :> "Generator stator overheating") @@
    (9 :> "Dynamic unbalance in the wind turbine") @@
    (10 :> "Wind controller overheating") @@
    (11 :> "Warning from the internal ECU module of the wind controller") @@
    (12 :> "Brake command from the internal ECU module of the wind controller") @@
    (13 :> "Generator speed too high") @@
    (25 :> "Timer switch off") @@
    (26 :> "Oil system anomaly") @@
    (27 :> "Internal communication anomaly") @@
    (28 :> "Pneumatic brake failure") @@
    (29 :> "High wind speed") @@
    (30 :> "Generator over-speed (possible inverter issue)") @@
    (33 :> "Exceeded pushing limit within time") @@
    (34 :> "Disk brake needs replacement") @@
    (39 :> "Memory reset or battery failure") @@
    (40 :> "Add gearbox lubrication oil") @@
    (41 :> "No gearbox oil left") @@
    (44 :> "Generator mechanical fault") @@
    (45 :> "Brake caliper line pressure increase") @@
    (47 :> "Oil pressure motor overload protection") @@
    (0 :> "System in standby") @@
    (14 :> "Wind speed reaching turbine start-up speed") @@
    (15 :> "Waiting for turbine speed to reach boost circuit start-up speed") @@
    (16 :> "System generating power normally") @@
    (17 :> "No-load short brake") @@
    (18 :> "No-load long brake") @@
    (19 :> "No-load brake") @@
    (20 :> "No-load brake with generator output three-phase short circuit") @@
    (21 :> "Loaded short brake") @@
    (22 :> "Loaded long brake") @@
    (23 :> "Loaded brake") @@
    (24 :> "Loaded brake with generator output three-phase short circuit") @@
    (31 :> "Waiting for manual reset") @@
    (32 :> "Automatic reset") @@
    (42 :> "Manual stop, local forced stop") @@
    (43 :> "Remote stop") @@
    (46 :> "Cooling fan activated")

EffDC == {-1, 0, 1, 3}
EffAC == {-2, 0, 2, 3}
ErrCodes == {16, 5, 36, 99}
ErrTimes == {29, 3690}

RECURSIVE ScanLoop(_, _, _, _)
\* wind_analysis.py:222-229, the for loop from 0-based index idx on
ScanLoop(st, idx, ts, cs) ==
    IF idx >= Len(cs) THEN st
    ELSE ScanLoop(ScanBody(st.current_code, st.start_time, st.error_ranges, idx, ts, cs),
                  idx + 1, ts, cs)

\* wind_analysis.py:212-235
find_error_time_ranges(table) ==
    LET ts == Column(table, "TM")
        cs == Column(table, "CODE 1")
        st == ScanLoop([current_code |-> None, start_time |-> None,
                        error_ranges |-> EmptyDict], 0, ts, cs)
    IN  ScanTail(st.current_code, st.start_time, st.error_ranges, ts)

\* line 293 keeping an efficiency of exactly the limit
WA_EfficiencyBelow_Inclusive(eff, limit) ==
    \/ eff.kind = "-inf"
    \/ eff.kind = "num" /\ RLe(eff.val, R(limit))

\* wind_analysis.py:293, df['Efficiency'] < 100 on a float that may be inf,
\* -inf or nan
WA_EfficiencyBelow(eff, limit) ==
    \/ eff.kind = "-inf"
    \/ eff.kind = "num" /\ RLt(eff.val, R(limit))

\* wind_analysis.py:293
WA_valid_efficiency(table) ==
    LET kept == SelectSeq(table, LAMBDA r : /\ WA_EfficiencyBelow(r.Efficiency, 100)
                                            /\ r.Power_AC > 0)
    IN  [k \in 1..Len(kept) |-> kept[k].Efficiency.val]

\* wind_analysis.py:294
WA_avg_efficiency(valid_efficiency) ==
    IF Len(valid_efficiency) > 0 THEN RMean(valid_efficiency) ELSE R(0)

\* f"{x:.2f}": the hundredths printed
Format2f(x) == RoundHalfEven(x[1] * 100, x[2])

\* t.strftime('%H:%M:%S'): the hour, minute and second printed
StrfTime(t) == <<t \div 3600, (t % 3600) \div 60, t % 60>>

\* line 305 without the default label
WA_CodeName_Strict(code) == IF code \in DOMAIN error_codes THEN error_codes[code] ELSE NaN

\* wind_analysis.py:305, error_codes.get(code, 'Unknown')
WA_CodeName(code) == IF code \in DOMAIN error_codes THEN error_codes[code] ELSE UNKNOWN

\* wind_analysis.py:302-307: the timeline part of the analysis text
WA_Timeline(ranges) ==
    LET keys == SelectSeq(SortSet(DOMAIN ranges), LAMBDA c : c # NOMINAL)
    IN  [j \in 1..Len(keys) |->
            [code |-> keys[j],
             name |-> WA_CodeName(keys[j]),
             ranges |-> [k \in 1..Len(ranges[keys[j]]) |->
                            <<StrfTime(ranges[keys[j]][k][1]),
                              StrfTime(ranges[keys[j]][k][2])>>]]]

\* wind_analysis.py:237-312; the returned text is kept as its parts
WA_error_analysis(table, cols) ==
    IF "CODE 1" \notin cols THEN [text |-> NO_CODE_DATA]
    ELSE LET ranges == find_error_time_ranges(table)
             avg_efficiency == WA_avg_efficiency(WA_valid_efficiency(table))
         IN  [text |-> "System Analysis",
              avg_efficiency |-> avg_efficiency,
              avg_text |-> Format2f(avg_efficiency),
              timeline |-> WA_Timeline(ranges)]

\* power_power_factor.py:101, Series.map(dict): a code that is no key maps
\* to NaN
PF_ErrorName(code) == IF code \in DOMAIN error_codes THEN error_codes[code] ELSE NaN

\* power_power_factor.py:101, the column is set on the caller's table
PF_WithErrorName(table) ==
    [k \in 1..Len(table) |->
        SetCol(table[k], "Error Name", PF_ErrorName(table[k]["CODE 1"]))]

RECURSIVE DropDuplicates(_, _)
\* DataFrame.drop_duplicates: the first occurrence of each row, in order
DropDuplicates(seq, seen) ==
    IF seq = <<>> THEN <<>>
    ELSE IF Head(seq) \in seen THEN DropDuplicates(Tail(seq), seen)
    ELSE <<Head(seq)>> \o DropDuplicates(Tail(seq), seen \cup {Head(seq)})

\* power_power_factor.py:102
PF_unique_errors(table) ==
    DropDuplicates([k \in 1..Len(table) |->
                       ("CODE 1" :> table[k]["CODE 1"]) @@
                       ("Error Name" :> table[k]["Error Name"])], {})

\* a row without one of its columns
DropCol(row, name) == [c \in (DOMAIN row) \ {name} |-> row[c]]

InitErr ==
    /\ \/ /\ df \in SeqsUpTo({Row(300, dc, ac, BETZ, 0, NOMINAL) :
                                  dc \in EffDC, ac \in EffAC}, MaxEffRows)
          /\ columns = EnrichedColumns
       \/ /\ df \in SeqsUpTo({Row(300, 1, 2, BETZ, t, c) :
                                  t \in ErrTimes, c \in ErrCodes}, MaxCodeRows)
          /\ columns = EnrichedColumns
       \/ /\ df \in SeqsUpTo({DropCol(Row(300, 1, 2, BETZ, t, NOMINAL), "CODE 1") :
                                  t \in ErrTimes}, MaxCodeRows)
          /\ columns = EnrichedColumns \ {"CODE 1"}
    /\ params = NoParams
    /\ today = 0
    /\ pc = "ready"
    /\ i = 1
    /\ current_code = None
    /\ start_time = None
    /\ error_ranges = EmptyDict
    /\ result = NoResult
    /\ prev = NoResult
    /\ out = <<>>

\* wind_analysis.py:237-312
CallWA_error_analysis ==
    /\ pc = "ready"
    /\ result' = [fn |-> "WA_error_analysis", value |-> WA_error_analysis(df, columns)]
    /\ prev' = result
    /\ pc' = "done"
    /\ UNCHANGED <<df, columns, params, today, i, current_code, start_time, error_ranges, out>>

\* power_power_factor.py:51-103
CallPF_error_analysis ==
    /\ pc = "ready"
    /\ "CODE 1" \in columns
    /\ df' = PF_WithErrorName(df)
    /\ columns' = columns \cup {"Error Name"}
    /\ result' = [fn |-> "PF_error_analysis", value |-> PF_unique_errors(df')]
    /\ prev' = result
    /\ pc' = "done"
    /\ UNCHANGED <<params, today, i, current_code, start_time, error_ranges, out>>

\* power_power_factor.py:101, df['CODE 1'] on a table without that column
CallPF_error_analysis_KeyError ==
    /\ pc = "ready"
    /\ "CODE 1" \notin columns
    /\ result' = [fn |-> "PF_error_analysis", raised |-> "KeyError"]
    /\ prev' = result
    /\ pc' = "done"
    /\ UNCHANGED <<df, columns, params, today, i, current_code, start_time, error_ranges, out>>

NextErr ==
    \/ CallWA_error_analysis
    \/ CallPF_error_analysis
    \/ CallPF_error_analysis_KeyError

SpecErr == InitErr /\ [][NextErr]_vars

\* the samples with efficiency < 100 and power_ac > 0
EfficiencySamples ==
    SelectSeq(df, LAMBDA r : r.Power_AC > 0 /\ r.Power_DC < r.Power_AC)

\* C9: the average efficiency of error_analysis is the arithmetic mean of
\* 100 * power_dc / power_ac over exactly the samples with efficiency < 100
\* and power_ac > 0, and 0 when no sample passes the filter.
C9_AverageEfficiency ==
    (result.fn = "WA_error_analysis" /\ "CODE 1" \in columns) =>
        LET s == RatioSum(EfficiencySamples)
            m == result.value.avg_efficiency
        IN  IF EfficiencySamples = <<>> THEN m = R(0)
            ELSE m[1] * s[2] * Len(EfficiencySamples) = 100 * s[1] * m[2]

\* one sample at 50 %, one at 150 % and one of power_ac = 0 dropped
C9_Witness ==
    /\ result.fn = "WA_error_analysis"
    /\ Len(df) = 2
    /\ df[1].Power_DC = 1 /\ df[1].Power_AC = 2
    /\ df[2].Power_DC = 3 /\ df[2].Power_AC = 2
    /\ result.value.avg_efficiency = R(50)

\* every sample is dropped (100 %, and power_ac = 0) and the average is 0
C9_WitnessNone ==
    /\ result.fn = "WA_error_analysis"
    /\ Len(df) = 2
    /\ df[1].Power_DC = 3 /\ df[1].Power_AC = 3
    /\ df[2].Power_DC = 1 /\ df[2].Power_AC = 0
    /\ result.value.avg_efficiency = R(0)

\* the label the claim gives a code
Labelled(code) == IF code \in DOMAIN error_codes THEN error_codes[code] ELSE UNKNOWN

\* C10: every code error_analysis reports, in the timeline of
\* wind_analysis.py and in the code/name table of power_power_factor.py,
\* carries its catalog name, or the label "Unknown" when it is no key of
\* the catalog; none is missing.
C10_UnknownCodesLabelled ==
    /\ (result.fn = "WA_error_analysis" /\ "CODE 1" \in columns) =>
          \A j \in 1..Len(result.value.timeline) :
              result.value.timeline[j].name = Labelled(result.value.timeline[j].code)
    /\ (result.fn = "PF_error_analysis" /\ "CODE 1" \in columns) =>
          \A j \in 1..Len(result.value) :
              /\ result.value[j]["Error Name"] # NaN
              /\ result.value[j]["Error Name"] = Labelled(result.value[j]["CODE 1"])

\* the half of C10 that holds: the timeline of wind_analysis.py
C10_TimelineLabelled ==
    (result.fn = "WA_error_analysis" /\ "CODE 1" \in columns) =>
        /\ {result.value.timeline[j].code : j \in 1..Len(result.value.timeline)}
              = {codes[k] : k \in 1..Len(df)} \ {NOMINAL}
        /\ \A j \in 1..Len(result.value.timeline) :
              result.value.timeline[j].name = Labelled(result.value.timeline[j].code)

C10_TimelineWitness ==
    /\ result.fn = "WA_error_analysis"
    /\ "CODE 1" \in columns
    /\ \E j \in 1..Len(result.value.timeline) :
          result.value.timeline[j].code = 99 /\ result.value.timeline[j].name = UNKNOWN

----------------------------------------------------------------------------
(* process_time_data, src/wind_analysis.py:62-96                           *)
(*                                                                         *)
(* A TM value below SECONDS_PER_DAY is a datetime.time, in seconds of the  *)
(* day; a larger one is a datetime, SECONDS_PER_DAY * date + seconds. The  *)
(* table holds values of one kind. The branch of line 80 is not modelled:  *)
(* read_and_process_data leaves only time and datetime values.             *)

SECONDS_PER_DAY == 86400
SECONDS_PER_MINUTE == 60
TableDates == {0, 7}
TimesOfDay == {29, 30, 31, 90, 86370}

IsTime(tm) == tm < SECONDS_PER_DAY
TimeOf(tm) == tm % SECONDS_PER_DAY

\* lines 70-77: datetime.combine(datetime.today(), x) or
\* datetime.combine(datetime.today(), x.time()), as seconds since day 0
TD_Combine(day, tm) ==
    IF IsTime(tm) THEN day * SECONDS_PER_DAY + tm
    ELSE day * SECONDS_PER_DAY + TimeOf(tm)

\* line 83 rounding a tie up
TD_Round_HalfUp(instant) ==
    IF 2 * (instant % SECONDS_PER_MINUTE) < SECONDS_PER_MINUTE
    THEN instant \div SECONDS_PER_MINUTE
    ELSE instant \div SECONDS_PER_MINUTE + 1

\* line 83: .dt.round('1min'), in minutes since day 0; pandas rounds a tie
\* to the even multiple of the unit
TD_Round(instant) == RoundHalfEven(instant, SECONDS_PER_MINUTE)

\* lines 68-83: the 'minute' column of df_copy, row k combined with the
\* date datetime.today() returned for it
TD_WithMinute(table, days) ==
    [k \in 1..Len(table) |->
        SetCol(table[k], "minute", TD_Round(TD_Combine(days[k], table[k].TM)))]

\* lines 86-93
TD_Groups(table) ==
    LET keys == GroupKeys(table, "minute")
    IN  [j \in 1..Len(keys) |->
            LET g == RowsWith(table, "minute", keys[j])
            IN  [minute |-> keys[j],
                 Power_DC |-> IntMean(Column(g, "Power_DC")),
                 Power_AC |-> IntMean(Column(g, "Power_AC")),
                 WSD |-> IntMean(Column(g, "WSD")),
                 Cp |-> RMean(Column(g, "Cp"))]]

InitTime ==
    /\ df \in UNION {[1..m -> {Row(w, 1, 2, BETZ, d * SECONDS_PER_DAY + t, NOMINAL) :
                                  w \in {300, 400}, t \in TimesOfDay}] :
                     m \in 1..MaxTimeRows, d \in TableDates}
    /\ columns = EnrichedColumns
    /\ params = NoParams
    /\ today = 0
    /\ pc = "ready"
    /\ i = 1
    /\ current_code = None
    /\ start_time = None
    /\ error_ranges = EmptyDict
    /\ result = NoResult
    /\ prev = NoResult
    /\ out = <<>>

\* lines 62-93 on a non-empty table; datetime.today() is called once per
\* row, so midnight may pass after the first n rows
process_time_data ==
    /\ pc = "ready"
    /\ Len(df) > 0
    /\ \E n \in 1..Len(df) :
          /\ n < Len(df) => today < MaxDay
          /\ LET days == [k \in 1..Len(df) |-> IF k <= n THEN today ELSE today + 1]
             IN  /\ result' = [fn |-> "process_time_data",
                               value |-> TD_Groups(TD_WithMinute(df, days)),
                               days |-> days]
                 /\ today' = days[Len(df)]
    /\ prev' = result
    /\ UNCHANGED <<df, columns, params, pc, i, current_code, start_time, error_ranges, out>>

\* the system clock passes midnight between two calls
Midnight ==
    /\ pc = "ready"
    /\ today < MaxDay
    /\ today' = today + 1
    /\ UNCHANGED <<df, columns, params, pc, i, current_code, start_time, error_ranges,
                   result, prev, out>>

NextTime == process_time_data \/ Midnight

SpecTime == InitTime /\ [][NextTime]_vars

\* the hour-and-minute of a TM value, in minutes of the day, and its seconds
MinuteOfDay(tm) == (tm % SECONDS_PER_DAY) \div 60
SecondOf(tm) == tm % 60

\* half-up rounding of the seconds: the minute itself below 30 s, the
\* following minute from 30 s on
HalfUpMinute(tm) == IF SecondOf(tm) < 30 THEN MinuteOfDay(tm) ELSE MinuteOfDay(tm) + 1

\* the same with a sample at exactly 30 s going to the even minute of the two
TieToEvenMinute(tm) ==
    IF SecondOf(tm) < 30 THEN MinuteOfDay(tm)
    ELSE IF SecondOf(tm) > 30 THEN MinuteOfDay(tm) + 1
    ELSE IF MinuteOfDay(tm) % 2 = 0 THEN MinuteOfDay(tm) ELSE MinuteOfDay(tm) + 1

\* the instant a rule gives sample k, in minutes since day 0: the date the
\* sample was combined with, and the rule's minute of that day
KeyOf(Rule(_), k) == result.days[k] * 1440 + Rule(df[k].TM)

\* the groups of a result whose key is the instant a rule gives sample k
GroupsAt(Rule(_), k) ==
    {j \in 1..Len(result.value) : result.value[j].minute = KeyOf(Rule, k)}

\* the wind speeds of the samples that a rule sends to the bucket of sample k
SharingBucket(Rule(_), k) ==
    LET same == {j \in 1..Len(df) : KeyOf(Rule, j) = KeyOf(Rule, k)}
        order == SortSet(same)
    IN  [n \in 1..Len(order) |-> df[order[n]].WSD]

\* every sample lies in the one bucket the rule gives it, whose mean wind
\* speed is the mean over the samples the rule sends there; no other bucket
\* is emitted, and the buckets ascend
BucketsFollow(Rule(_)) ==
    /\ \A k \in 1..Len(df) :
          /\ Cardinality(GroupsAt(Rule, k)) = 1
          /\ \A j \in GroupsAt(Rule, k) :
                result.value[j].WSD = IntMean(SharingBucket(Rule, k))
    /\ \A j \in 1..Len(result.value) :
          \E k \in 1..Len(df) : j \in GroupsAt(Rule, k)
    /\ \A j \in 1..Len(result.value) - 1 :
          result.value[j].minute < result.value[j + 1].minute

\* C4 as claimed: the bucket of a sample is its minute when SS < 30 and the
\* following minute when SS >= 30, and two samples share a bucket iff this
\* rule gives them the same minute.
C4_HalfUpBuckets ==
    result.fn = "process_time_data" => BucketsFollow(HalfUpMinute)

\* C4 as amended: the bucket of a sample is its minute when SS < 30, the
\* following minute when SS > 30, and at exactly SS = 30 the even-numbered
\* one of the two; two samples share a bucket iff this rule gives them the
\* same minute of the same date.
C4_TieToEvenBuckets ==
    result.fn = "process_time_data" => BucketsFollow(TieToEvenMinute)

\* 00:00:30 stays in minute 00:00 with 00:00:29, and 00:01:30 goes to 00:02
C4_Witness ==
    /\ result.fn = "process_time_data"
    /\ Len(df) = 2
    /\ df[1].TM = 30 /\ df[1].WSD = 300
    /\ df[2].TM = 29 /\ df[2].WSD = 400
    /\ result.days = <<0, 0>>
    /\ Len(result.value) = 1
    /\ result.value[1].minute = 0
    /\ result.value[1].WSD = R(350)

\* C6: two runs of process_time_data on the same table return the same
\* bucket keys and means, whenever each run happens.
C6_SameOutputOnRerun ==
    (prev.fn = "process_time_data" /\ result.fn = "process_time_data") =>
        prev.value = result.value

----------------------------------------------------------------------------
(* main() of src/wind_analysis.py, lines 342-370, from the upload on       *)
(*                                                                         *)
(* A row of the uploaded file carries, as P_dc and P_ac, the powers that   *)
(* lines 32-33 compute from its electrical columns. Its TM is a record:    *)
(* a string 'HH:MM:SS' kept as the three numbers it spells, a time, or a   *)
(* datetime. Charts and texts are kept as records of what they show.       *)

RawColumns ==
    {"Vdc", "Idc", "Euv", "Evw", "Ewu", "Iu", "Iv", "Iw", "WSD", "TM", "CODE 1"}

\* the columns a model file may lack
Droppable == {"Vdc", "Euv", "WSD", "TM", "CODE 1"}

RawTimes ==
    {[type |-> "str", hms |-> <<0, 0, 29>>],
     [type |-> "str", hms |-> <<25, 0, 0>>],
     [type |-> "time", sec |-> 29],
     [type |-> "datetime", date |-> 7, sec |-> 29]}

RawRow(tm, code) ==
    [P_dc |-> 1, P_ac |-> 2, WSD |-> 300, TM |-> tm] @@ ("CODE 1" :> code)

\* the sidebar's default values, lines 319-338
DefaultParams ==
    [air_density |-> <<49, 40>>, rotor_diameter |-> 10, rotor_height |-> 10]

\* a row without the columns the file lacks
Without(row, missing) == [c \in (DOMAIN row) \ missing |-> row[c]]

\* line 48: the format '%H:%M:%S' matches
Parseable(tm) ==
    /\ tm.type = "str"
    /\ tm.hms[1] \in 0..23
    /\ tm.hms[2] \in 0..59
    /\ tm.hms[3] \in 0..59

\* lines 47-48: the TM of a row as read_and_process_data leaves it
NormalTM(tm) ==
    IF tm.type = "str" THEN tm.hms[1] * 3600 + tm.hms[2] * 60 + tm.hms[3]
    ELSE IF tm.type = "time" THEN tm.sec
    ELSE tm.date * SECONDS_PER_DAY + tm.sec

\* Series.max() of a column of integers; the maximum of no value is nan
ColumnMax(col) ==
    IF Len(col) = 0 THEN NaN
    ELSE CHOOSE x \in {col[k] : k \in 1..Len(col)} :
            \A k \in 1..Len(col) : col[k] <= x

\* Series.min() of a column of integers
ColumnMin(col) ==
    IF Len(col) = 0 THEN NaN
    ELSE CHOOSE x \in {col[k] : k \in 1..Len(col)} :
            \A k \in 1..Len(col) : x <= col[k]

Raise(exc) ==
    /\ pc' = "except"
    /\ result' = [fn |-> "main", raised |-> exc]
    /\ UNCHANGED <<df, columns, out>>

InitMain ==
    /\ \E missing \in SUBSET Droppable :
          /\ columns = RawColumns \ missing
          /\ df \in SeqsUpTo({Without(RawRow(tm, c), missing) :
                                 tm \in RawTimes, c \in {NOMINAL, 5}}, MaxMainRows)
    /\ params = DefaultParams
    /\ today = 0
    /\ pc = "powers"
    /\ i = 1
    /\ current_code = None
    /\ start_time = None
    /\ error_ranges = EmptyDict
    /\ result = NoResult
    /\ prev = NoResult
    /\ out = <<>>

\* lines 32-33
MainPowers ==
    /\ pc = "powers"
    /\ IF {"Vdc", "Idc", "Euv", "Iu", "Evw", "Iv", "Ewu", "Iw"} \subseteq columns
       THEN /\ df' = [k \in 1..Len(df) |->
                        SetCol(SetCol(df[k], "Power_DC", df[k].P_dc),
                               "Power_AC", df[k].P_ac)]
            /\ columns' = columns \cup {"Power_DC", "Power_AC"}
            /\ pc' = "maxima"
            /\ UNCHANGED <<result, out>>
       ELSE Raise("KeyError")
    /\ UNCHANGED <<params, today, i, current_code, start_time, error_ranges, prev>>

\* lines 36-39
MainMaxima ==
    /\ pc = "maxima"
    /\ out' = out \o <<[kind |-> "write", what |-> "Maximum Power",
                        value |-> ColumnMax(Column(df, "Power_DC"))],
                       [kind |-> "write", what |-> "Maximum Power AC",
                        value |-> ColumnMax(Column(df, "Power_AC"))]>>
    /\ pc' = "efficiency"
    /\ UNCHANGED <<df, columns, result>>
    /\ UNCHANGED <<params, today, i, current_code, start_time, error_ranges, prev>>

\* lines 41-44
MainEfficiencyCp ==
    /\ pc = "efficiency"
    /\ IF "WSD" \in columns
       THEN /\ df' = [k \in 1..Len(df) |->
                        SetCol(SetCol(df[k], "Efficiency",
                                      EfficiencyOf(df[k].Power_DC, df[k].Power_AC)),
                               "Cp",
                               calculate_power_coefficient(R(df[k].Power_AC),
                                                           RDivInt(df[k].WSD, 100),
                                                           params.air_density,
                                                           R(params.rotor_diameter),
                                                           R(params.rotor_height)))]
            /\ columns' = columns \cup {"Efficiency", "Cp"}
            /\ pc' = "tm"
            /\ UNCHANGED <<result, out>>
       ELSE Raise("KeyError")
    /\ UNCHANGED <<params, today, i, current_code, start_time, error_ranges, prev>>

\* lines 47-51
MainTM ==
    /\ pc = "tm"
    /\ IF "TM" \notin columns THEN Raise("KeyError")
       ELSE IF Len(df) = 0 THEN Raise("IndexError")
       ELSE IF df[1].TM.type = "str" /\ \E k \in 1..Len(df) : ~Parseable(df[k].TM)
       THEN Raise("ValueError")
       ELSE /\ df' = [k \in 1..Len(df) |-> SetCol(df[k], "TM", NormalTM(df[k].TM))]
            /\ pc' = "plots"
            /\ UNCHANGED <<columns, result, out>>
    /\ UNCHANGED <<params, today, i, current_code, start_time, error_ranges, prev>>

\* lines 348-356
MainPlots ==
    /\ pc = "plots"
    /\ df' = WA_WithRounded(df)
    /\ columns' = columns \cup {"WSD_rounded"}
    /\ out' = Append(out,
                     [kind |-> "chart", what |-> "Wind Power Analysis",
                      wind_speed_groups |-> WA_Groups(df'),
                      time_groups |->
                          TD_Groups(TD_WithMinute(df, [k \in 1..Len(df) |-> today]))])
    /\ pc' = "analysis"
    /\ UNCHANGED result
    /\ UNCHANGED <<params, today, i, current_code, start_time, error_ranges, prev>>

\* lines 359-360
MainAnalysis ==
    /\ pc = "analysis"
    /\ out' = Append(out, [kind |-> "write", what |-> "error_analysis",
                           value |-> WA_error_analysis(df, columns)])
    /\ pc' = "statistics"
    /\ UNCHANGED <<df, columns, result>>
    /\ UNCHANGED <<params, today, i, current_code, start_time, error_ranges, prev>>

\* lines 363-366
MainStatistics ==
    /\ pc = "statistics"
    /\ out' = out \o <<[kind |-> "write", what |-> "Data Statistics"],
                       [kind |-> "write", what |-> "Total number of records",
                        value |-> Len(df)],
                       [kind |-> "write", what |-> "Wind speed range",
                        value |-> <<ColumnMin(Column(df, "WSD")),
                                    ColumnMax(Column(df, "WSD"))>>],
                       [kind |-> "write", what |-> "Time range",
                        value |-> <<StrfTime(ColumnMin(Column(df, "TM"))),
                                    StrfTime(ColumnMax(Column(df, "TM")))>>]>>
    /\ pc' = "done"
    /\ result' = [fn |-> "main", raised |-> "none"]
    /\ UNCHANGED <<df, columns>>
    /\ UNCHANGED <<params, today, i, current_code, start_time, error_ranges, prev>>

\* lines 369-370
MainExcept ==
    /\ pc = "except"
    /\ out' = Append(out, [kind |-> "error",
                           what |-> "An error occurred while processing the data",
                           value |-> result.raised])
    /\ pc' = "done"
    /\ UNCHANGED <<df, columns, result>>
    /\ UNCHANGED <<params, today, i, current_code, start_time, error_ranges, prev>>

NextMain ==
    \/ MainPowers
    \/ MainMaxima
    \/ MainEfficiencyCp
    \/ MainTM
    \/ MainPlots
    \/ MainAnalysis
    \/ MainStatistics
    \/ MainExcept

SpecMain == InitMain /\ [][NextMain]_vars

\* the run failed with an input-format error: a required column is missing
\* or a timestamp could not be parsed
InputFormatError ==
    \/ RawColumns \ columns # {}
    \/ result.fn = "main" /\ result.raised = "ValueError"

\* C5: a run of main() that fails with an input-format error ends with
\* exactly one error message and nothing else shown for the dataset.
C5_OneErrorNoPartialOutput ==
    (pc = "done" /\ InputFormatError) =>
        /\ Len(out) = 1
        /\ out[1].kind = "error"

====
